---------------------------- MODULE Spec2Model ----------------------------
(***************************************************************************)
(* License server: the license routes (routes/licenses.js, PostgreSQL      *)
(* variant, src/unnamed/part_001 lines 572-1262) running against the       *)
(* PostgreSQL LicenseDatabase (src/unnamed/part_000 lines 103-465).        *)
(*                                                                         *)
(* The store is the only shared state.  Every HTTP request is a process    *)
(* with its own locals (the row it read, the timestamp it took); the       *)
(* steps of a request are the points where the handler touches the store   *)
(* or resumes after an await, so requests interleave exactly where the     *)
(* Node event loop and the connection pool let them.                       *)
(*                                                                         *)
(* Time is counted in days.  kiosk_name and the location columns are       *)
(* descriptive only and are left out of the rows.                          *)
(***************************************************************************)
EXTENDS Integers, Sequences, FiniteSets, TLC

\* ------------------------------------------------------------------ bounds
MaxReqs == 3          \* requests served in one behaviour
MaxNow == 2           \* the clock runs from day 0 to day MaxNow
MaxBoots == 8         \* processes started in one behaviour

\* ------------------------------------------------------- program constants
GraceDays == 90               \* 90 * 24 * 60 * 60 * 1000 ms
DefaultValidityDays == 365    \* validityDays || parseInt(env) || 365
NullTime == 0 - 1             \* a NULL TIMESTAMP column

LicenseKeys == {"KFC-KIO-UK-1"}
Devices == {"dev-A", "dev-B"}
Reasons == {"r1", "r2"}
ValidityChoices == {0, 1}     \* validityDays of the request body; 0 is absent
NullHash == <<>>              \* a NULL device_id_hash
NullText == "NULL"            \* a NULL revoke_reason
Reqs == 1..MaxReqs

VARIABLES
    licenses,          \* table licenses: license_key -> the rows under it
    validation_logs,   \* table validation_logs, in insertion order
    activity_logs,     \* table activity_logs, in insertion order
    now,               \* the server clock at its latest reading
    reqs,              \* the requests: inputs, position, locals, response
    verification,      \* a call of verifyLicenseSignature: arguments, result
    decoding,          \* a device decoding an offline license file
    keyFiles,          \* data/keys on disk and the key pair the process holds
    faults             \* the call that threw or was rejected, per request

vars == <<licenses, validation_logs, activity_logs, now, reqs, verification,
          decoding, keyFiles, faults>>

\* What the license routes never touch.  No call of theirs fails unless a
\* step says so.
apart == <<verification, decoding, keyFiles, faults>>

\* ------------------------------------------------------------ utils/crypto
\* sha256 hex digest of the raw id: deterministic, injective on the ids of
\* the model, and never equal to a raw id or to NULL.
hashDeviceId(deviceId) == <<"sha256", deviceId>>

privateKey == "private.pem"
publicKey == "public.pem"
PrivateOf(pub) == IF pub = publicKey THEN privateKey ELSE "none"

\* RSA-SHA256 over JSON.stringify(licenseData): determined by the serialized
\* fields and the signing key.
signLicense(licenseData, key) == [over |-> licenseData, by |-> key]

\* Arguments the verifier cannot use: a key that is no PEM public key, a
\* signature that is no string.  verify.verify raises on both.
BadKey == "not-a-key.pem"
NoSignature == "undefined"

\* The try block: createVerify, update(JSON.stringify(licenseData)), end,
\* verify.verify(publicKey, signature, 'base64').
TryVerify(licenseData, signature, pub) ==
    IF pub = BadKey \/ signature.by = NoSignature THEN "raised"
    ELSE IF signature = signLicense(licenseData, PrivateOf(pub)) THEN "true"
    ELSE "false"

\* Mutant: the catch block answers true.
verifyLicenseSignature_CatchAccepts(licenseData, signature, pub) ==
    TryVerify(licenseData, signature, pub) \in {"true", "raised"}

\* try { return verify.verify(...) } catch (error) { return false }
verifyLicenseSignature(licenseData, signature, pub) ==
    LET outcome == TryVerify(licenseData, signature, pub)
    IN  IF outcome = "raised" THEN FALSE ELSE outcome = "true"

\* crypto.pbkdf2Sync(deviceId, 'license-salt', 100000, 32, 'sha256')
deriveKey(deviceId) == <<"pbkdf2", deviceId, "license-salt">>

\* crypto.randomBytes(16)
IVs == {"iv-1", "iv-2"}

\* Mutant: the key does not depend on the device id.
encryptLicense_FixedKey(licenseData, deviceId, iv) ==
    LET key == <<"pbkdf2", "", "license-salt">>
    IN  [encrypted |-> [cipher |-> "aes-256-gcm", key |-> key, iv |-> iv,
                        plaintext |-> licenseData],
         iv |-> iv,
         authTag |-> [key |-> key, iv |-> iv, plaintext |-> licenseData]]

\* AES-256-GCM over JSON.stringify(licenseData) under the key derived from
\* the device id and a fresh iv: the ciphertext is opaque without the key,
\* the tag authenticates it under that key and iv.
encryptLicense(licenseData, deviceId, iv) ==
    LET key == deriveKey(deviceId)
    IN  [encrypted |-> [cipher |-> "aes-256-gcm", key |-> key, iv |-> iv,
                        plaintext |-> licenseData],
         iv |-> iv,
         authTag |-> [key |-> key, iv |-> iv, plaintext |-> licenseData]]

\* The decoder of the device: AES-256-GCM decryption of the file under the
\* key derived from the device id.  <<data>> when the tag authenticates,
\* <<>> when authentication fails.
decryptLicense(licenseFile, deviceId) ==
    LET key == deriveKey(deviceId)
    IN  IF /\ licenseFile.encrypted.key = key
           /\ licenseFile.encrypted.iv = licenseFile.iv
           /\ licenseFile.authTag =
                 [key |-> key, iv |-> licenseFile.iv,
                  plaintext |-> licenseFile.encrypted.plaintext]
        THEN <<licenseFile.encrypted.plaintext>>
        ELSE <<>>

\* ---------------------------------------------------------- LicenseDatabase
\* INSERT INTO licenses (..., status, issued_at, expires_at): the other
\* columns take their defaults (NULL).
NewRow(issuedAt, expiresAt) ==
    [status |-> "pending", device_id_hash |-> NullHash,
     issued_at |-> issuedAt, expires_at |-> expiresAt,
     activated_at |-> NullTime, last_validated_at |-> NullTime,
     revoked_at |-> NullTime, revoke_reason |-> NullText]

\* The table as result.rows of a lookup by key: <<>> or one row.
NoRows == <<>>

\* Mutant: the INSERT replaces the row of a duplicate key.
createLicense_Replaces(table, licenseKey, issuedAt, expiresAt) ==
    [table EXCEPT ![licenseKey] = <<NewRow(issuedAt, expiresAt)>>]

\* INSERT under the UNIQUE constraint on license_key: a duplicate key is
\* rejected and nothing is written.
createLicense(table, licenseKey, issuedAt, expiresAt) ==
    IF table[licenseKey] # NoRows
    THEN table
    ELSE [table EXCEPT ![licenseKey] = <<NewRow(issuedAt, expiresAt)>>]

\* SELECT * FROM licenses WHERE license_key = $1 ; result.rows
getLicenseByKey(table, licenseKey) == table[licenseKey]

\* Mutant: the UPDATE leaves the status column out.
activateLicense_KeepsStatus(table, licenseKey, deviceIdHash, ts) ==
    IF table[licenseKey] # NoRows
    THEN [table EXCEPT ![licenseKey] =
            <<[@[1] EXCEPT !.device_id_hash = deviceIdHash,
                           !.activated_at = ts, !.last_validated_at = ts]>>]
    ELSE table

\* Mutant: the UPDATE leaves the two timestamps out.
activateLicense_NoStamp(table, licenseKey, deviceIdHash, ts) ==
    IF table[licenseKey] # NoRows
    THEN [table EXCEPT ![licenseKey] =
            <<[@[1] EXCEPT !.device_id_hash = deviceIdHash, !.status = "active"]>>]
    ELSE table

\* UPDATE licenses SET device_id_hash, status = 'active', activated_at,
\* last_validated_at WHERE license_key = $5
activateLicense(table, licenseKey, deviceIdHash, ts) ==
    IF table[licenseKey] # NoRows
    THEN [table EXCEPT ![licenseKey] =
            <<[@[1] EXCEPT !.device_id_hash = deviceIdHash, !.status = "active",
                           !.activated_at = ts, !.last_validated_at = ts]>>]
    ELSE table

\* Mutant: the UPDATE also stamps activated_at.
updateValidation_StampsActivation(table, licenseKey, ts) ==
    IF table[licenseKey] # NoRows
    THEN [table EXCEPT ![licenseKey] =
            <<[@[1] EXCEPT !.last_validated_at = ts, !.activated_at = ts]>>]
    ELSE table

\* UPDATE licenses SET last_validated_at WHERE license_key = $3
updateValidation(table, licenseKey, ts) ==
    IF table[licenseKey] # NoRows
    THEN [table EXCEPT ![licenseKey] = <<[@[1] EXCEPT !.last_validated_at = ts]>>]
    ELSE table

\* Mutant: the UPDATE leaves revoke_reason out.
revokeLicense_KeepsReason(table, licenseKey, reason, ts) ==
    IF table[licenseKey] # NoRows
    THEN [table EXCEPT ![licenseKey] =
            <<[@[1] EXCEPT !.status = "revoked", !.revoked_at = ts]>>]
    ELSE table

\* UPDATE licenses SET status = 'revoked', revoked_at, revoke_reason
\* WHERE license_key = $4
revokeLicense(table, licenseKey, reason, ts) ==
    IF table[licenseKey] # NoRows
    THEN [table EXCEPT ![licenseKey] =
            <<[@[1] EXCEPT !.status = "revoked", !.revoked_at = ts,
                           !.revoke_reason = reason]>>]
    ELSE table

\* DELETE FROM licenses WHERE license_key = $1
deleteLicense(table, licenseKey) == [table EXCEPT ![licenseKey] = NoRows]

\* Mutant: the insert replaces what the table held.
logValidation_Replaces(log, licenseKey, deviceIdHash, validationType, success, errorMessage) ==
    <<[license_key |-> licenseKey, device_id_hash |-> deviceIdHash,
       validation_type |-> validationType, success |-> success,
       error_message |-> errorMessage]>>

\* INSERT INTO validation_logs
logValidation(log, licenseKey, deviceIdHash, validationType, success, errorMessage) ==
    Append(log, [license_key |-> licenseKey, device_id_hash |-> deviceIdHash,
                 validation_type |-> validationType, success |-> success,
                 error_message |-> errorMessage])

\* INSERT INTO activity_logs
logActivity(log, action, resourceId, details) ==
    Append(log, [action |-> action, resource_id |-> resourceId, details |-> details])

\* ---------------------------------------------------------------- requests
IdleReq ==
    [op |-> "none", pc |-> "idle", key |-> "", dev |-> "", reason |-> "",
     lic |-> NoRows, ts |-> NullTime, result |-> "none", resp |-> <<>>]

\* Requests take the slots in order.
CanStart(r) ==
    /\ reqs[r].pc = "idle"
    /\ \A q \in Reqs : q < r => reqs[q].pc # "idle"

\* Device ids and reasons are opaque to the code, so a behaviour is the same
\* up to their names: the second name is drawn only once the first is in use.
Fresh(field, names) ==
    LET used == {reqs[q][field] : q \in Reqs} \cap names
    IN  IF used = {} THEN {CHOOSE n \in names : TRUE} ELSE names

DeviceInputs == Fresh("dev", Devices)
ReasonInputs == Fresh("reason", Reasons) \cup {""}

Init ==
    /\ licenses = [k \in LicenseKeys |-> NoRows]
    /\ validation_logs = <<>>
    /\ activity_logs = <<>>
    /\ now = 0
    /\ reqs = [r \in Reqs |-> IdleReq]
    /\ verification = <<>>
    /\ decoding = <<>>
    /\ keyFiles = <<>>
    /\ faults = [r \in Reqs |-> "none"]

\* new Date() / Date.now(): the clock never runs backward, and any amount of
\* time may have passed since it was last read.
ClockReadings == now..MaxNow

\* Mutant: the handler returns without sending anything.
Answered_Silent(q, result, resp) ==
    [q EXCEPT !.pc = "lost", !.lic = NoRows, !.ts = NullTime]

\* The locals of a handler are gone once it has answered.
Answered(q, result, resp) ==
    [q EXCEPT !.pc = "done", !.lic = NoRows, !.ts = NullTime,
              !.result = result, !.resp = resp]


\* ------------------------------------------------- POST /activate (async)
\* Mutant: the already-activated branch does not compare the device.
ActivateBranch_AnyDevice(rows, deviceId, t) ==
    IF rows = NoRows THEN "NotFound"
    ELSE LET license == rows[1] IN
         IF license.status = "active" /\ license.device_id_hash # NullHash
         THEN "SameDevice"
         ELSE IF license.status = "revoked" THEN "Revoked"
         ELSE IF license.expires_at < t THEN "Expired"
         ELSE "Activate"

\* The checks of the handler on the row it read, in the order the code makes
\* them, at handler time t.
ActivateBranch(rows, deviceId, t) ==
    IF rows = NoRows THEN "NotFound"
    ELSE LET license == rows[1] IN
         IF license.status = "active" /\ license.device_id_hash # NullHash
         THEN IF license.device_id_hash = hashDeviceId(deviceId)
              THEN "SameDevice"
              ELSE "DeviceMismatch"
         ELSE IF license.status = "revoked" THEN "Revoked"
         ELSE IF license.expires_at < t THEN "Expired"
         ELSE "Activate"

ActivateErrorMessage(branch) ==
    CASE branch = "NotFound" -> "License key not found"
      [] branch = "DeviceMismatch" -> "License already activated on another device"
      [] branch = "Revoked" -> "License has been revoked"
      [] branch = "Expired" -> "License has expired"

\* res.status(...).json({ error, reason? })
ErrorBody(branch, rows) ==
    IF branch = "Revoked"
    THEN <<[error |-> branch, reason |-> rows[1].revoke_reason]>>
    ELSE <<[error |-> branch]>>

\* Mutant: the signature covers the license without its grace date.
Signed_Partial(licenseResponse) ==
    <<[license |-> licenseResponse,
       signature |->
          signLicense([f \in DOMAIN licenseResponse \ {"graceExpiresAt"} |->
                          licenseResponse[f]], privateKey)]>>

\* { ...licenseResponse, signature }
Signed(licenseResponse) ==
    <<[license |-> licenseResponse,
       signature |-> signLicense(licenseResponse, privateKey)]>>

\* The response of the same-device branch, built from the row that was read.
ExistingLicenseResponse(licenseKey, deviceId, license) ==
    [licenseKey |-> licenseKey, deviceId |-> hashDeviceId(deviceId),
     activatedAt |-> license.activated_at, expiresAt |-> license.expires_at,
     lastValidated |-> license.last_validated_at,
     graceExpiresAt |-> license.last_validated_at + GraceDays]

\* The response of a first activation, stamped with the clock at the time it
\* is built.
NewLicenseResponse(licenseKey, deviceId, license, t) ==
    [licenseKey |-> licenseKey, deviceId |-> hashDeviceId(deviceId),
     activatedAt |-> t, expiresAt |-> license.expires_at,
     lastValidated |-> t, graceExpiresAt |-> t + GraceDays]

\* new Date() is first evaluated by the expiry check: the branches taken
\* before it never look at the clock.
ReadsClock(branch) == branch \in {"Expired", "Activate", "Valid"}

\* The request arrives and awaits db.getLicenseByKey.
ActivateRead(r, k, d) ==
    /\ UNCHANGED apart
    /\ CanStart(r)
    /\ reqs' = [reqs EXCEPT ![r] =
                  [@ EXCEPT !.op = "activate", !.key = k, !.dev = d,
                            !.lic = getLicenseByKey(licenses, k), !.pc = "decide"]]
    /\ UNCHANGED <<licenses, validation_logs, activity_logs, now>>

\* The handler resumes with the row, at time t.  A failing branch awaits
\* logValidation and answers; the same-device branch signs and answers
\* without logging; otherwise db.activateLicense takes its timestamp and the
\* UPDATE is sent.
ActivateDecide(r, t) ==
    /\ UNCHANGED apart
    /\ reqs[r].op = "activate" /\ reqs[r].pc = "decide"
    /\ now' = t
    /\ LET q == reqs[r]
           branch == ActivateBranch(q.lic, q.dev, t)
       IN  /\ ReadsClock(branch) \/ t = now
           /\ CASE branch = "SameDevice" ->
                      /\ reqs' = [reqs EXCEPT ![r] =
                            Answered(q, "Success",
                                     Signed(ExistingLicenseResponse(q.key, q.dev, q.lic[1])))]
                      /\ UNCHANGED validation_logs
                 [] branch = "Activate" ->
                      /\ reqs' = [reqs EXCEPT ![r] = [@ EXCEPT !.ts = t, !.pc = "update"]]
                      /\ UNCHANGED validation_logs
                 [] OTHER ->
                      /\ validation_logs' =
                            logValidation(validation_logs, q.key, hashDeviceId(q.dev),
                                          "activation", FALSE, ActivateErrorMessage(branch))
                      /\ reqs' = [reqs EXCEPT ![r] =
                            Answered(q, branch, ErrorBody(branch, q.lic))]
    /\ UNCHANGED <<licenses, activity_logs>>

\* The UPDATE of db.activateLicense commits.
ActivateUpdate(r) ==
    /\ UNCHANGED apart
    /\ reqs[r].op = "activate" /\ reqs[r].pc = "update"
    /\ licenses' = activateLicense(licenses, reqs[r].key,
                                   hashDeviceId(reqs[r].dev), reqs[r].ts)
    /\ reqs' = [reqs EXCEPT ![r] = [@ EXCEPT !.pc = "respond"]]
    /\ UNCHANGED <<validation_logs, activity_logs, now>>

\* The handler resumes at time t: builds and signs the response, awaits the
\* log insert, answers.
ActivateRespond(r, t) ==
    /\ UNCHANGED apart
    /\ reqs[r].op = "activate" /\ reqs[r].pc = "respond"
    /\ now' = t
    /\ LET q == reqs[r] IN
       /\ validation_logs' =
             logValidation(validation_logs, q.key, hashDeviceId(q.dev),
                           "activation", TRUE, NullText)
       /\ reqs' = [reqs EXCEPT ![r] =
             Answered(q, "Success",
                      Signed(NewLicenseResponse(q.key, q.dev, q.lic[1], t)))]
    /\ UNCHANGED <<licenses, activity_logs>>

\* ------------------------------------------------- POST /validate (async)
\* The names the validate handler declares.  The object passed to
\* db.logValidation after the device check is written with the shorthand
\* property `deviceIdHash`, which is none of them: evaluating it throws a
\* ReferenceError, and the catch block answers 500.
ValidateScope ==
    {"req", "res", "requestId", "licenseKey", "deviceId", "license", "deviceHash"}

Throws(identifier) == identifier \notin ValidateScope

\* Mutant: a license is expired from the instant of its expiry date on.
ValidateBranch_ExpiresAtNow(rows, deviceId, t) ==
    IF rows = NoRows THEN "NotFound"
    ELSE LET license == rows[1] IN
         IF license.device_id_hash # hashDeviceId(deviceId) THEN "DeviceMismatch"
         ELSE IF license.status = "revoked" THEN "Revoked"
         ELSE IF license.expires_at <= t THEN "Expired"
         ELSE "Valid"

\* The checks of the handler on the row it read, in the order the code makes
\* them, at handler time t.
ValidateBranch(rows, deviceId, t) ==
    IF rows = NoRows THEN "NotFound"
    ELSE LET license == rows[1] IN
         IF license.device_id_hash # hashDeviceId(deviceId) THEN "DeviceMismatch"
         ELSE IF license.status = "revoked" THEN "Revoked"
         ELSE IF license.expires_at < t THEN "Expired"
         ELSE "Valid"

ValidateErrorMessage(branch) ==
    CASE branch = "NotFound" -> "License key not found"
      [] branch = "DeviceMismatch" -> "Device ID mismatch"
      [] branch = "Revoked" -> "License has been revoked"
      [] branch = "Expired" -> "License has expired"

\* The request arrives and awaits db.getLicenseByKey.
ValidateRead(r, k, d) ==
    /\ UNCHANGED apart
    /\ CanStart(r)
    /\ reqs' = [reqs EXCEPT ![r] =
                  [@ EXCEPT !.op = "validate", !.key = k, !.dev = d,
                            !.lic = getLicenseByKey(licenses, k), !.pc = "decide"]]
    /\ UNCHANGED <<licenses, validation_logs, activity_logs, now>>

\* The catch block of the handler.
ValidationFailed == <<[error |-> "Validation failed"]>>

\* The handler resumes with the row, at time t.  NotFound logs with
\* hashDeviceId(deviceId) and answers; the other failing branches build the
\* log entry with `deviceIdHash`; otherwise db.updateValidation takes its
\* timestamp and the UPDATE is sent.
ValidateDecide(r, t) ==
    /\ UNCHANGED apart
    /\ reqs[r].op = "validate" /\ reqs[r].pc = "decide"
    /\ now' = t
    /\ LET q == reqs[r]
           branch == ValidateBranch(q.lic, q.dev, t)
       IN  /\ ReadsClock(branch) \/ t = now
           /\ CASE branch = "Valid" ->
                      /\ reqs' = [reqs EXCEPT ![r] = [@ EXCEPT !.ts = t, !.pc = "update"]]
                      /\ UNCHANGED validation_logs
                 [] branch = "NotFound" \/ ~Throws("deviceIdHash") ->
                      /\ validation_logs' =
                            logValidation(validation_logs, q.key, hashDeviceId(q.dev),
                                          "periodic", FALSE, ValidateErrorMessage(branch))
                      /\ reqs' = [reqs EXCEPT ![r] =
                            Answered(q, branch, ErrorBody(branch, q.lic))]
                 [] OTHER ->
                      /\ reqs' = [reqs EXCEPT ![r] = Answered(q, "Failed", ValidationFailed)]
                      /\ UNCHANGED validation_logs
    /\ UNCHANGED <<licenses, activity_logs>>

\* The UPDATE of db.updateValidation commits.
ValidateUpdate(r) ==
    /\ UNCHANGED apart
    /\ reqs[r].op = "validate" /\ reqs[r].pc = "update"
    /\ licenses' = updateValidation(licenses, reqs[r].key, reqs[r].ts)
    /\ reqs' = [reqs EXCEPT ![r] = [@ EXCEPT !.pc = "respond"]]
    /\ UNCHANGED <<validation_logs, activity_logs, now>>

\* The handler resumes at time t: the log insert of the success path, built
\* with `deviceIdHash`, then the answer.
ValidateRespond(r, t) ==
    /\ UNCHANGED apart
    /\ reqs[r].op = "validate" /\ reqs[r].pc = "respond"
    /\ now' = t
    /\ LET q == reqs[r] IN
       IF Throws("deviceIdHash")
       THEN /\ t = now
            /\ reqs' = [reqs EXCEPT ![r] = Answered(q, "Failed", ValidationFailed)]
            /\ UNCHANGED validation_logs
       ELSE /\ validation_logs' =
                  logValidation(validation_logs, q.key, hashDeviceId(q.dev),
                                "periodic", TRUE, NullText)
            /\ reqs' = [reqs EXCEPT ![r] =
                  Answered(q, "Success",
                           <<[valid |-> TRUE, validatedAt |-> t,
                              expiresAt |-> q.lic[1].expires_at]>>)]
    /\ UNCHANGED <<licenses, activity_logs>>

\* ------------------------------------- operator routes (not async handlers)
\* These handlers call the database without await: db.getLicenseByKey hands
\* back a pending Promise, which is an object and so never falsy, and the
\* write is sent but not waited for.  The handler answers in the same run;
\* the write commits in a later step.  The activity log insert is sent the
\* same way; no handler reads that table, so it is recorded at hand-off.

\* What `db.getLicenseByKey(key)` evaluates to without await.
Promise(rows) == <<"Promise">>

\* if (!license) with the value just obtained
Falsy(value) == value = NoRows

\* validityDays || parseInt(process.env.LICENSE_VALIDITY_DAYS) || 365, with
\* the environment variable unset
Validity(validityDays) ==
    IF validityDays # 0 THEN validityDays ELSE DefaultValidityDays

\* POST /generate at time t: the key comes from generateLicenseKey (random
\* segments), the INSERT is sent, the answer reports the license as pending.
GenerateHandle(r, k, validityDays, t) ==
    /\ UNCHANGED apart
    /\ CanStart(r)
    /\ now' = t
    /\ LET issuedAt == t
           expiresAt == t + Validity(validityDays)
       IN  reqs' = [reqs EXCEPT ![r] =
              [@ EXCEPT !.op = "generate", !.key = k,
                        !.lic = <<NewRow(issuedAt, expiresAt)>>,
                        !.pc = "sent", !.result = "Success",
                        !.resp = <<[licenseKey |-> k, status |-> "pending",
                                    issuedAt |-> issuedAt, expiresAt |-> expiresAt]>>]]
    /\ activity_logs' = logActivity(activity_logs, "generate_license", k, NullText)
    /\ UNCHANGED <<licenses, validation_logs>>

\* The write a handler sent has reached the table.
Settled(q) == [q EXCEPT !.pc = "done", !.lic = NoRows, !.ts = NullTime]

\* The INSERT of db.createLicense reaches the table.
GenerateCommit(r) ==
    /\ UNCHANGED apart
    /\ reqs[r].op = "generate" /\ reqs[r].pc = "sent"
    /\ licenses' = createLicense(licenses, reqs[r].key,
                                 reqs[r].lic[1].issued_at, reqs[r].lic[1].expires_at)
    /\ reqs' = [reqs EXCEPT ![r] = Settled(@)]
    /\ UNCHANGED <<validation_logs, activity_logs, now>>

\* POST /:licenseKey/revoke at time t
RevokeHandle(r, k, reason, t) ==
    /\ UNCHANGED apart
    /\ CanStart(r)
    /\ now' = t
    /\ LET q == [reqs[r] EXCEPT !.op = "revoke", !.key = k, !.reason = reason] IN
       IF reason = ""
       THEN /\ t = now
            /\ reqs' = [reqs EXCEPT ![r] =
                  Answered(q, "BadRequest", <<[error |-> "Revocation reason required"]>>)]
            /\ UNCHANGED activity_logs
       ELSE IF Falsy(Promise(getLicenseByKey(licenses, k)))
       THEN /\ t = now
            /\ reqs' = [reqs EXCEPT ![r] =
                  Answered(q, "NotFound", <<[error |-> "License not found"]>>)]
            /\ UNCHANGED activity_logs
       ELSE /\ reqs' = [reqs EXCEPT ![r] =
                  [q EXCEPT !.ts = t, !.pc = "sent", !.result = "Success",
                            !.resp = <<[success |-> TRUE]>>]]
            /\ activity_logs' = logActivity(activity_logs, "revoke_license", k, reason)
    /\ UNCHANGED <<licenses, validation_logs>>

\* The UPDATE of db.revokeLicense reaches the table.
RevokeCommit(r) ==
    /\ UNCHANGED apart
    /\ reqs[r].op = "revoke" /\ reqs[r].pc = "sent"
    /\ licenses' = revokeLicense(licenses, reqs[r].key, reqs[r].reason, reqs[r].ts)
    /\ reqs' = [reqs EXCEPT ![r] = Settled(@)]
    /\ UNCHANGED <<validation_logs, activity_logs, now>>

\* DELETE /:licenseKey
DeleteHandle(r, k) ==
    /\ UNCHANGED apart
    /\ CanStart(r)
    /\ LET q == [reqs[r] EXCEPT !.op = "delete", !.key = k] IN
       IF Falsy(Promise(getLicenseByKey(licenses, k)))
       THEN /\ reqs' = [reqs EXCEPT ![r] =
                  Answered(q, "NotFound", <<[error |-> "License not found"]>>)]
            /\ UNCHANGED activity_logs
       ELSE /\ reqs' = [reqs EXCEPT ![r] =
                  [q EXCEPT !.pc = "sent", !.result = "Success",
                            !.resp = <<[success |-> TRUE]>>]]
            /\ activity_logs' = logActivity(activity_logs, "delete_license", k, NullText)
    /\ UNCHANGED <<licenses, validation_logs, now>>

\* The DELETE of db.deleteLicense reaches the table.
DeleteCommit(r) ==
    /\ UNCHANGED apart
    /\ reqs[r].op = "delete" /\ reqs[r].pc = "sent"
    /\ licenses' = deleteLicense(licenses, reqs[r].key)
    /\ reqs' = [reqs EXCEPT ![r] = Settled(@)]
    /\ UNCHANGED <<validation_logs, activity_logs, now>>

\* ------------------------------------------------------------ specification
Next ==
    \/ \E r \in Reqs, k \in LicenseKeys, d \in DeviceInputs : ActivateRead(r, k, d)
    \/ \E r \in Reqs, t \in ClockReadings : ActivateDecide(r, t)
    \/ \E r \in Reqs : ActivateUpdate(r)
    \/ \E r \in Reqs, t \in ClockReadings : ActivateRespond(r, t)
    \/ \E r \in Reqs, k \in LicenseKeys, d \in DeviceInputs : ValidateRead(r, k, d)
    \/ \E r \in Reqs, t \in ClockReadings : ValidateDecide(r, t)
    \/ \E r \in Reqs : ValidateUpdate(r)
    \/ \E r \in Reqs, t \in ClockReadings : ValidateRespond(r, t)
    \/ \E r \in Reqs, k \in LicenseKeys, v \in ValidityChoices, t \in ClockReadings :
          GenerateHandle(r, k, v, t)
    \/ \E r \in Reqs : GenerateCommit(r)
    \/ \E r \in Reqs, k \in LicenseKeys, reason \in ReasonInputs, t \in ClockReadings :
          RevokeHandle(r, k, reason, t)
    \/ \E r \in Reqs : RevokeCommit(r)
    \/ \E r \in Reqs, k \in LicenseKeys : DeleteHandle(r, k)
    \/ \E r \in Reqs : DeleteCommit(r)

Spec == Init /\ [][Next]_vars


\* ------------------------------------------- POST /generate-offline (admin)
\* deviceId.substring(0, n): the first n characters of the raw id.
substring(deviceId, n) == [of |-> deviceId, first |-> n]

\* The license data of the offline file.  `license` is the un-awaited
\* Promise, so license.license_key, kiosk_name, issued_at and expires_at are
\* undefined and JSON drops them; what is left is the fingerprint and the
\* three dates taken from the clock.
OfflineLicenseData(license, deviceId, t) ==
    [deviceId |-> hashDeviceId(deviceId), activatedAt |-> t,
     lastValidated |-> t, graceExpiresAt |-> t + GraceDays]

\* The handler at time t: sign, encrypt for the device, log the activity,
\* answer with the file and the signed data.
OfflineHandle(r, k, d, iv, t) ==
    /\ CanStart(r)
    /\ now' = t
    /\ LET q == [reqs[r] EXCEPT !.op = "offline", !.key = k, !.dev = d]
           license == Promise(getLicenseByKey(licenses, k))
           licenseData == OfflineLicenseData(license, d, t)
           signed == [license |-> licenseData,
                      signature |-> signLicense(licenseData, privateKey)]
       IN  IF Falsy(license)
           THEN /\ reqs' = [reqs EXCEPT ![r] =
                      Answered(q, "NotFound", <<[error |-> "License not found"]>>)]
                /\ UNCHANGED activity_logs
           ELSE /\ reqs' = [reqs EXCEPT ![r] =
                      Answered(q, "Success",
                               <<[licenseFile |-> encryptLicense(signed, d, iv),
                                  licenseData |-> signed]>>)]
                /\ activity_logs' =
                      logActivity(activity_logs, "generate_offline_license", k,
                                  [text |-> "Device ID: ...", part |-> substring(d, 8)])
    /\ UNCHANGED <<licenses, validation_logs, apart>>

\* Mutant: the route sends the other half of the pair.
KeysPublicBody_Private(pub) == PrivateOf(pub)

\* res.type('text/plain').send(publicKey)
KeysPublicBody(pub) == pub

\* GET /keys/public
KeysPublic(r) ==
    /\ CanStart(r)
    /\ reqs' = [reqs EXCEPT ![r] =
          Answered([@ EXCEPT !.op = "keys"], "Success",
                   <<[body |-> KeysPublicBody(publicKey)]>>)]
    /\ UNCHANGED <<licenses, validation_logs, activity_logs, now, apart>>

\* A device with id d decodes the file request r was answered with.
DecodeOffline(r, d) ==
    /\ reqs[r].op = "offline" /\ reqs[r].result = "Success"
    /\ decoding' = [req |-> r, dev |-> d,
                    result |-> decryptLicense(reqs[r].resp[1].licenseFile, d)]
    /\ UNCHANGED <<licenses, validation_logs, activity_logs, now, reqs,
                   verification, keyFiles, faults>>

OfflineNext ==
    \/ \E r \in Reqs, k \in LicenseKeys, d \in DeviceInputs, iv \in IVs,
          t \in ClockReadings : OfflineHandle(r, k, d, iv, t)
    \/ \E r \in Reqs : KeysPublic(r)
    \/ \E r \in Reqs, d \in Devices : DecodeOffline(r, d)

OfflineSpec == Init /\ [][OfflineNext]_vars

\* Every endpoint of the license routes.
ServiceNext ==
    \/ Next
    \/ \E r \in Reqs, k \in LicenseKeys, d \in DeviceInputs, iv \in IVs,
          t \in ClockReadings : OfflineHandle(r, k, d, iv, t)
    \/ \E r \in Reqs : KeysPublic(r)

ServiceSpec == Init /\ [][ServiceNext]_vars

\* ------------------------------------ the handlers when a call of theirs fails
\* Each await of /activate and /validate sits inside the handler's try block,
\* and so does signLicense: a rejected query or a throw lands in the catch
\* block, which answers 500.

\* The catch block of the activate handler.
ActivationFailed == <<[error |-> "Activation failed"]>>

Fails(r, call) == faults' = [faults EXCEPT ![r] = call]

\* await db.getLicenseByKey rejects.
ActivateReadFails(r, k, d) ==
    /\ CanStart(r)
    /\ reqs' = [reqs EXCEPT ![r] =
          Answered([@ EXCEPT !.op = "activate", !.key = k, !.dev = d],
                   "Failed", ActivationFailed)]
    /\ Fails(r, "getLicenseByKey")
    /\ UNCHANGED <<licenses, validation_logs, activity_logs, now,
                   verification, decoding, keyFiles>>

\* The handler resumes with the row, at time t, and the query its branch
\* awaits is rejected: the log insert of a failing branch, or the UPDATE of
\* db.activateLicense.
ActivateStoreFails(r, t) ==
    /\ reqs[r].op = "activate" /\ reqs[r].pc = "decide"
    /\ now' = t
    /\ LET q == reqs[r]
           branch == ActivateBranch(q.lic, q.dev, t)
       IN  /\ ReadsClock(branch) \/ t = now
           /\ branch # "SameDevice"
           /\ reqs' = [reqs EXCEPT ![r] = Answered(q, "Failed", ActivationFailed)]
           /\ Fails(r, IF branch = "Activate" THEN "activateLicense"
                                              ELSE "logValidation")
    /\ UNCHANGED <<licenses, validation_logs, activity_logs,
                   verification, decoding, keyFiles>>

\* signLicense throws: in the same-device branch, or after the UPDATE of a
\* first activation has committed.
ActivateSignFails(r, t) ==
    /\ reqs[r].op = "activate"
    /\ \/ reqs[r].pc = "respond"
       \/ /\ reqs[r].pc = "decide" /\ t = now
          /\ ActivateBranch(reqs[r].lic, reqs[r].dev, t) = "SameDevice"
    /\ now' = t
    /\ reqs' = [reqs EXCEPT ![r] = Answered(@, "Failed", ActivationFailed)]
    /\ Fails(r, "signLicense")
    /\ UNCHANGED <<licenses, validation_logs, activity_logs,
                   verification, decoding, keyFiles>>

\* After the UPDATE of a first activation has committed and the response is
\* signed, await db.logValidation rejects.
ActivateLogFails(r, t) ==
    /\ reqs[r].op = "activate" /\ reqs[r].pc = "respond"
    /\ now' = t
    /\ reqs' = [reqs EXCEPT ![r] = Answered(@, "Failed", ActivationFailed)]
    /\ Fails(r, "logValidation")
    /\ UNCHANGED <<licenses, validation_logs, activity_logs,
                   verification, decoding, keyFiles>>

\* await db.getLicenseByKey rejects.
ValidateReadFails(r, k, d) ==
    /\ CanStart(r)
    /\ reqs' = [reqs EXCEPT ![r] =
          Answered([@ EXCEPT !.op = "validate", !.key = k, !.dev = d],
                   "Failed", ValidationFailed)]
    /\ Fails(r, "getLicenseByKey")
    /\ UNCHANGED <<licenses, validation_logs, activity_logs, now,
                   verification, decoding, keyFiles>>

\* The handler resumes with the row, at time t, and the query its branch
\* awaits is rejected: the log insert of the not-found branch, or the UPDATE
\* of db.updateValidation.  The other branches throw before their query is
\* sent.
ValidateStoreFails(r, t) ==
    /\ reqs[r].op = "validate" /\ reqs[r].pc = "decide"
    /\ now' = t
    /\ LET q == reqs[r]
           branch == ValidateBranch(q.lic, q.dev, t)
       IN  /\ ReadsClock(branch) \/ t = now
           /\ branch \in {"NotFound", "Valid"} \/ ~Throws("deviceIdHash")
           /\ reqs' = [reqs EXCEPT ![r] = Answered(q, "Failed", ValidationFailed)]
           /\ Fails(r, IF branch = "Valid" THEN "updateValidation"
                                           ELSE "logValidation")
    /\ UNCHANGED <<licenses, validation_logs, activity_logs,
                   verification, decoding, keyFiles>>

FaultNext ==
    \/ Next
    \/ \E r \in Reqs, k \in LicenseKeys, d \in DeviceInputs : ActivateReadFails(r, k, d)
    \/ \E r \in Reqs, t \in ClockReadings : ActivateStoreFails(r, t)
    \/ \E r \in Reqs, t \in ClockReadings : ActivateSignFails(r, t)
    \/ \E r \in Reqs, t \in ClockReadings : ActivateLogFails(r, t)
    \/ \E r \in Reqs, k \in LicenseKeys, d \in DeviceInputs : ValidateReadFails(r, k, d)
    \/ \E r \in Reqs, t \in ClockReadings : ValidateStoreFails(r, t)

FaultSpec == Init /\ [][FaultNext]_vars

\* The step that follows an await of request r: the awaited call has
\* returned and the handler runs to its next await or to its answer, or the
\* call was rejected (or signLicense threw) and the catch block answers.
Resumes(r) ==
    \/ \E t \in ClockReadings :
          \/ ActivateDecide(r, t) \/ ActivateStoreFails(r, t)
          \/ ActivateRespond(r, t) \/ ActivateLogFails(r, t)
          \/ ActivateSignFails(r, t)
          \/ ValidateDecide(r, t) \/ ValidateStoreFails(r, t)
          \/ ValidateRespond(r, t)
    \/ ActivateUpdate(r)
    \/ ValidateUpdate(r)

\* Every store call a handler awaits is settled in the end.
LiveSpec == FaultSpec /\ \A r \in Reqs : WF_vars(Resumes(r))

\* ------------------------------------------------- two licenses, one fleet
\* The licenses of two kiosks, both issued at day 0 with the default
\* validity, and the devices activating them.
FleetKeys == {"KFC-KIO-UK-1", "KFC-KIO-UK-2"}

\* SELECT * FROM licenses WHERE device_id_hash = $1 AND status = 'active' ;
\* result.rows, by the keys of the rows
getLicenseByDeviceId(table, deviceIdHash) ==
    {k \in DOMAIN table :
        /\ table[k] # NoRows
        /\ table[k][1].device_id_hash = deviceIdHash
        /\ table[k][1].status = "active"}

FleetInit ==
    /\ licenses = [k \in FleetKeys |-> <<NewRow(0, DefaultValidityDays)>>]
    /\ validation_logs = <<>>
    /\ activity_logs = <<>>
    /\ now = 0
    /\ reqs = [r \in Reqs |-> IdleReq]
    /\ verification = <<>>
    /\ decoding = <<>>
    /\ keyFiles = <<>>
    /\ faults = [r \in Reqs |-> "none"]

FleetNext ==
    \/ \E r \in Reqs, k \in FleetKeys, d \in DeviceInputs : ActivateRead(r, k, d)
    \/ \E r \in Reqs, t \in ClockReadings : ActivateDecide(r, t)
    \/ \E r \in Reqs : ActivateUpdate(r)
    \/ \E r \in Reqs, t \in ClockReadings : ActivateRespond(r, t)

FleetSpec == FleetInit /\ [][FleetNext]_vars

\* ------------------------------------------------ loadKeys at every boot
\* The module runs loadKeys() when it is required, once per process.  The
\* files of data/keys outlive the process; the pair it holds does not.

\* crypto.generateKeyPairSync: the n-th pair made is unlike every other.
generateKeyPair(n) == [privateKey |-> <<"private", n>>, publicKey |-> <<"public", n>>]

\* A path with no file under it.
NoFile == <<>>

\* Mutant: the files on disk are never looked at.
KeysOnDisk_Never(files) == FALSE

\* fs.existsSync(privateKeyPath) && fs.existsSync(publicKeyPath)
KeysOnDisk(files) == files.private # NoFile /\ files.public # NoFile

BootInit ==
    /\ licenses = [k \in LicenseKeys |-> NoRows]
    /\ validation_logs = <<>>
    /\ activity_logs = <<>>
    /\ now = 0
    /\ reqs = [r \in Reqs |-> IdleReq]
    /\ verification = <<>>
    /\ decoding = <<>>
    /\ faults = [r \in Reqs |-> "none"]
    /\ keyFiles = [private |-> NoFile, public |-> NoFile, pc |-> "down",
                   held |-> <<>>, boots |-> 0, pairs |-> 0, served |-> {}]

rest == <<licenses, validation_logs, activity_logs, now, reqs, verification,
          decoding, faults>>

\* A process starts and runs loadKeys up to its first write: with both
\* files on disk it reads them; otherwise it makes a pair and writes
\* private.pem.
Boot ==
    /\ keyFiles.pc = "down" /\ keyFiles.boots < MaxBoots
    /\ IF KeysOnDisk(keyFiles)
       THEN keyFiles' = [keyFiles EXCEPT
               !.held = <<[privateKey |-> keyFiles.private,
                           publicKey |-> keyFiles.public]>>,
               !.pc = "up", !.boots = @ + 1]
       ELSE LET keys == generateKeyPair(keyFiles.pairs + 1) IN
            keyFiles' = [keyFiles EXCEPT
               !.held = <<keys>>, !.private = keys.privateKey,
               !.pc = "writing", !.boots = @ + 1, !.pairs = @ + 1]
    /\ UNCHANGED rest

\* fs.writeFileSync(publicKeyPath, publicKey); the routes are then exported.
WritePublicKey ==
    /\ keyFiles.pc = "writing"
    /\ keyFiles' = [keyFiles EXCEPT !.public = keyFiles.held[1].publicKey, !.pc = "up"]
    /\ UNCHANGED rest

\* GET /keys/public while the process is up.
ServePublicKey ==
    /\ keyFiles.pc = "up"
    /\ keyFiles' = [keyFiles EXCEPT
          !.served = @ \cup {KeysPublicBody(keyFiles.held[1].publicKey)}]
    /\ UNCHANGED rest

\* The process ends, at any point after its first write: what it held is
\* gone, the files stay as they are.
Exit ==
    /\ keyFiles.pc \in {"writing", "up"}
    /\ keyFiles' = [keyFiles EXCEPT !.pc = "down", !.held = <<>>]
    /\ UNCHANGED rest

BootNext ==
    \/ Boot
    \/ WritePublicKey
    \/ ServePublicKey
    \/ Exit

BootSpec == BootInit /\ [][BootNext]_vars

\* ------------------------------------------- verifyLicenseSignature alone
\* The assertions the service builds for a first activation.
Assertions ==
    {NewLicenseResponse(k, d, NewRow(0, DefaultValidityDays), t) :
        k \in LicenseKeys, d \in Devices, t \in 0..MaxNow}

\* Signatures over these assertions by the service key or by another key,
\* and values that are no signature.
Signatures ==
    {signLicense(a, key) :
        a \in Assertions, key \in {privateKey, "other-private.pem", NoSignature}}

VerifierKeys == {publicKey, BadKey}

\* A caller holds any assertion, any signature and any key.
VerifyInit ==
    /\ licenses = [k \in LicenseKeys |-> NoRows]
    /\ validation_logs = <<>>
    /\ activity_logs = <<>>
    /\ now = 0
    /\ reqs = [r \in Reqs |-> IdleReq]
    /\ verification \in [licenseData : Assertions, signature : Signatures,
                         publicKey : VerifierKeys, result : {"none"}]
    /\ decoding = <<>>
    /\ keyFiles = <<>>
    /\ faults = [r \in Reqs |-> "none"]

\* The caller calls verifyLicenseSignature and keeps what it returned.
VerifyCall ==
    /\ verification.result = "none"
    /\ verification' =
          [verification EXCEPT !.result =
              IF verifyLicenseSignature(verification.licenseData,
                                        verification.signature,
                                        verification.publicKey)
              THEN "true" ELSE "false"]
    /\ UNCHANGED <<licenses, validation_logs, activity_logs, now, reqs,
                   decoding, keyFiles, faults>>

VerifyNext == VerifyCall

VerifySpec == VerifyInit /\ [][VerifyNext]_vars

\* ------------------------------------------------------------------ claims
Row(k) == licenses[k][1]
Exists(k) == licenses[k] # NoRows

\* Request r is answered in this step.
AnsweredNow(r) == reqs[r].result = "none" /\ reqs'[r].result # "none"

\* The row request r read, when it read one.
Read(r) == reqs[r].lic[1]
HasRead(r, op) == reqs[r].op = op /\ reqs[r].pc # "done" /\ reqs[r].lic # NoRows

\* No operator request has touched key k.
Untouched(k) ==
    \A q \in Reqs : reqs[q].op \in {"revoke", "delete"} => reqs[q].key # k

\* C1: of two Activate calls on one pending license with different device
\* ids exactly one succeeds and the other receives DeviceMismatch: a call
\* that read the license pending is answered DeviceMismatch when the other
\* device's call has succeeded, and is answered DeviceMismatch only then.
C1_ExactlyOneActivationWins ==
    [][\A r1, r2 \in Reqs :
          ( /\ r1 # r2
            /\ reqs[r1].op = "activate" /\ reqs[r1].pc = "done"
            /\ reqs[r1].key = reqs[r2].key /\ reqs[r1].dev # reqs[r2].dev
            /\ HasRead(r2, "activate") /\ Read(r2).status = "pending"
            /\ Untouched(reqs[r2].key)
            /\ AnsweredNow(r2) /\ reqs'[r2].result # "Expired" )
          => (reqs'[r2].result = "DeviceMismatch" <=> reqs[r1].result = "Success")
      ]_vars

\* C2: the stored status only moves pending -> active -> revoked: no step
\* returns a license to pending and no step changes a revoked status.
C2_StatusMonotone ==
    [][\A k \in LicenseKeys :
          (Exists(k) /\ licenses'[k] # NoRows) =>
             /\ Row(k).status # "pending" => licenses'[k][1].status # "pending"
             /\ Row(k).status = "revoked" => licenses'[k][1].status = "revoked"
      ]_vars

\* C3: once the stored fingerprint is non-null no step changes it.
C3_FingerprintWrittenOnce ==
    [][\A k \in LicenseKeys :
          (Exists(k) /\ licenses'[k] # NoRows /\ Row(k).device_id_hash # NullHash)
             => licenses'[k][1].device_id_hash = Row(k).device_id_hash
      ]_vars

\* Request r takes a step.
Steps(r) == reqs'[r] # reqs[r]

Assertion(r) == reqs'[r].resp[1].license

\* The answer of request r carries an assertion for its own device, signed
\* with the service key.
SignedFor(r) ==
    /\ reqs'[r].result = "Success"
    /\ Assertion(r).deviceId = hashDeviceId(reqs[r].dev)
    /\ verifyLicenseSignature(Assertion(r), reqs'[r].resp[1].signature, publicKey)

\* C4: an Activate call that finds the license active and bound to another
\* device is answered DeviceMismatch and writes nothing to the license.
C4_BoundRejectsOtherDevice ==
    [][\A r \in Reqs :
          ( /\ Steps(r) /\ HasRead(r, "activate")
            /\ Read(r).status = "active"
            /\ Read(r).device_id_hash \notin {NullHash, hashDeviceId(reqs[r].dev)} )
          => /\ reqs'[r].pc = "done" /\ reqs'[r].result = "DeviceMismatch"
             /\ licenses' = licenses
      ]_vars

C4_Witness ==
    \E r \in Reqs :
       /\ reqs[r].op = "activate" /\ reqs[r].result = "DeviceMismatch"
       /\ Exists(reqs[r].key)
       /\ Row(reqs[r].key).status = "active"
       /\ Row(reqs[r].key).device_id_hash \notin {NullHash, hashDeviceId(reqs[r].dev)}

\* C5: activation is idempotent for the bound device.  An Activate call that
\* finds the license pending and unexpired binds it to hash(D) and is
\* answered with a signed assertion for hash(D); an Activate call by D that
\* finds the license active and bound to hash(D) is answered with a signed
\* assertion for hash(D) and leaves the license as it is.
C5_ActivateIdempotent ==
    [][\A r \in Reqs : (Steps(r) /\ HasRead(r, "activate")) =>
          LET q == reqs[r]
              k == q.key
          IN  /\ ( /\ q.pc = "decide" /\ Read(r).status = "pending"
                   /\ Read(r).expires_at >= now' )
                 => reqs'[r].pc = "update"
              /\ q.pc = "update"
                 => /\ reqs'[r].pc = "respond"
                    /\ Exists(k) =>
                         /\ licenses'[k][1].status = "active"
                         /\ licenses'[k][1].device_id_hash = hashDeviceId(q.dev)
              /\ q.pc = "respond"
                 => SignedFor(r) /\ licenses' = licenses
              /\ ( /\ Read(r).status = "active"
                   /\ Read(r).device_id_hash = hashDeviceId(q.dev) )
                 => SignedFor(r) /\ licenses' = licenses
      ]_vars

\* Device D activated the license and then activated it again (one first
\* activation was logged): both calls succeeded with the same fingerprint,
\* the license is active and bound to it.
C5_Witness ==
    \E r1, r2 \in Reqs :
       /\ r1 # r2
       /\ reqs[r1].op = "activate" /\ reqs[r2].op = "activate"
       /\ reqs[r1].key = reqs[r2].key /\ reqs[r1].dev = reqs[r2].dev
       /\ reqs[r1].result = "Success" /\ reqs[r2].result = "Success"
       /\ reqs[r1].resp[1].license.deviceId = reqs[r2].resp[1].license.deviceId
       /\ Cardinality({i \in DOMAIN validation_logs : validation_logs[i].success}) = 1
       /\ Exists(reqs[r1].key)
       /\ Row(reqs[r1].key).status = "active"
       /\ Row(reqs[r1].key).device_id_hash = hashDeviceId(reqs[r1].dev)

\* C6: an Activate or Validate call that finds the license revoked, with
\* any device id, is answered Revoked with the stored reason.
C6_RevokedIsTerminal ==
    [][\A r \in Reqs :
          ( /\ AnsweredNow(r) /\ reqs[r].op \in {"activate", "validate"}
            /\ reqs[r].lic # NoRows /\ Read(r).status = "revoked" )
          => /\ reqs'[r].result = "Revoked"
             /\ reqs'[r].resp[1].reason = Read(r).revoke_reason
      ]_vars

\* C7: no step changes the revokeReason or the revokedAt of a license that
\* is already revoked.
C7_RevokeNeverOverwrites ==
    [][\A k \in LicenseKeys :
          (Exists(k) /\ licenses'[k] # NoRows /\ Row(k).status = "revoked")
          => /\ licenses'[k][1].revoke_reason = Row(k).revoke_reason
             /\ licenses'[k][1].revoked_at = Row(k).revoked_at
      ]_vars

\* C8: a Validate call that finds a non-revoked license whose expiresAt is
\* before now is answered Expired, whatever the device id.
C8_ExpiredValidateFails ==
    [][\A r \in Reqs :
          ( /\ AnsweredNow(r) /\ HasRead(r, "validate") /\ reqs[r].pc = "decide"
            /\ Read(r).status # "revoked" /\ Read(r).expires_at < now' )
          => reqs'[r].result = "Expired"
      ]_vars

\* C9: an Activate call that finds a non-revoked license whose expiresAt is
\* before now is answered Expired, pending or active, bound device or not.
C9_ExpiredActivateFails ==
    [][\A r \in Reqs :
          ( /\ Steps(r) /\ HasRead(r, "activate") /\ reqs[r].pc = "decide"
            /\ Read(r).status # "revoked" /\ Read(r).expires_at < now' )
          => reqs'[r].result = "Expired"
      ]_vars

\* C10: a Validate call by device D that finds the license active, unexpired
\* and bound to hash(D) stores lastValidatedAt = the time of the call and is
\* answered with success and the current expiry.
C10_ValidateSucceeds ==
    [][\A r \in Reqs :
          ( /\ Steps(r) /\ HasRead(r, "validate")
            /\ Read(r).status = "active"
            /\ Read(r).device_id_hash = hashDeviceId(reqs[r].dev)
            /\ Read(r).expires_at >= now' )
          => LET q == reqs[r] IN
             /\ q.pc = "decide" => reqs'[r].pc = "update"
             /\ (q.pc = "update" /\ Exists(q.key))
                   => licenses'[q.key][1].last_validated_at = q.ts
             /\ q.pc = "respond"
                   => /\ reqs'[r].result = "Success"
                      /\ reqs'[r].resp[1].expiresAt = Read(r).expires_at
      ]_vars

\* C11: a Validate call that finds a non-revoked, unexpired license whose
\* stored fingerprint (null included) differs from hash(deviceId) is answered
\* DeviceMismatch and changes no field of the license.
C11_ValidateMismatch ==
    [][\A r \in Reqs :
          ( /\ AnsweredNow(r) /\ HasRead(r, "validate") /\ reqs[r].pc = "decide"
            /\ Read(r).status # "revoked" /\ Read(r).expires_at >= now'
            /\ Read(r).device_id_hash # hashDeviceId(reqs[r].dev) )
          => /\ reqs'[r].result = "DeviceMismatch"
             /\ licenses' = licenses
      ]_vars

\* C12: every Activate or Validate call appends exactly one validation-log
\* entry: the step that answers the call appends one entry, the other steps
\* of the call append none.
C12_OneLogEntryPerCall ==
    [][\A r \in Reqs :
          (Steps(r) /\ reqs'[r].op \in {"activate", "validate"})
          => Len(validation_logs') =
                Len(validation_logs) + (IF AnsweredNow(r) THEN 1 ELSE 0)
      ]_vars

\* C13: a step of a Validate call changes no column of any license other
\* than last_validated_at, and neither creates nor removes a license.
C13_ValidateFrame ==
    [][\A r \in Reqs :
          (Steps(r) /\ reqs'[r].op = "validate")
          => \A k \in LicenseKeys :
                /\ licenses'[k] = NoRows <=> licenses[k] = NoRows
                /\ Exists(k) =>
                      licenses'[k][1] =
                         [Row(k) EXCEPT !.last_validated_at =
                                           licenses'[k][1].last_validated_at]
      ]_vars

\* The UPDATE of a Validate call has committed a timestamp later than the
\* activation's.
C13_Witness ==
    \E r \in Reqs :
       /\ reqs[r].op = "validate" /\ reqs[r].pc = "respond"
       /\ Exists(reqs[r].key)
       /\ Row(reqs[r].key).last_validated_at = reqs[r].ts
       /\ Row(reqs[r].key).last_validated_at # Row(reqs[r].key).activated_at
       /\ Row(reqs[r].key).status = "active"

\* C14: Issue creates a new record only.  The handler takes issuedAt = now
\* and expiresAt = now + the days of the request, or the service default when
\* the request gives none, and writes nothing itself; its INSERT creates a
\* pending license with these dates and every other column null when no
\* record is under the key, and changes nothing when one is.
C14_IssueCreatesOnly ==
    [][/\ \A r \in Reqs, k \in LicenseKeys, v \in ValidityChoices, t \in ClockReadings :
             GenerateHandle(r, k, v, t) =>
                /\ reqs'[r].resp[1].issuedAt = now'
                /\ reqs'[r].resp[1].expiresAt =
                      now' + (IF v # 0 THEN v ELSE DefaultValidityDays)
                /\ licenses' = licenses
       /\ \A r \in Reqs :
             (reqs[r].op = "generate" /\ reqs[r].pc = "sent" /\ reqs'[r].pc = "done") =>
                LET k == reqs[r].key
                    answer == reqs[r].resp[1]
                IN  IF Exists(k)
                    THEN licenses' = licenses
                    ELSE licenses' = [licenses EXCEPT ![k] =
                            <<[status |-> "pending", device_id_hash |-> NullHash,
                               issued_at |-> answer.issuedAt,
                               expires_at |-> answer.expiresAt,
                               activated_at |-> NullTime,
                               last_validated_at |-> NullTime,
                               revoked_at |-> NullTime,
                               revoke_reason |-> NullText]>>]
      ]_vars

\* Two Issue calls with different validity have run on one key: the record
\* is the one the first INSERT created, still pending.
C14_Witness ==
    \E r1, r2 \in Reqs :
       /\ reqs[r1].op = "generate" /\ reqs[r1].pc = "done"
       /\ reqs[r2].op = "generate" /\ reqs[r2].pc = "done"
       /\ reqs[r1].key = reqs[r2].key
       /\ reqs[r1].resp[1].expiresAt # reqs[r2].resp[1].expiresAt
       /\ Exists(reqs[r1].key)
       /\ Row(reqs[r1].key).status = "pending"
       /\ Row(reqs[r1].key).device_id_hash = NullHash
       /\ Row(reqs[r1].key).issued_at = reqs[r1].resp[1].issuedAt
       /\ Row(reqs[r1].key).expires_at = reqs[r1].resp[1].expiresAt

\* C15: an Issue call never reports success for a key that is already in the
\* store.
C15_KeyCollisionChecked ==
    [][\A r \in Reqs :
          ( /\ reqs[r].op = "none" /\ reqs'[r].op = "generate"
            /\ reqs'[r].result = "Success" )
          => ~Exists(reqs'[r].key)
      ]_vars

\* C16: the assertion of a successful Activate has graceExpiresAt =
\* lastValidated + 90 days, and its lastValidated is the last_validated_at
\* stored for the license.
C16_GraceFromLastValidated ==
    [][\A r \in Reqs :
          ( /\ AnsweredNow(r) /\ reqs[r].op = "activate"
            /\ reqs'[r].result = "Success" )
          => /\ Assertion(r).graceExpiresAt = Assertion(r).lastValidated + GraceDays
             /\ Exists(reqs[r].key) =>
                   Assertion(r).lastValidated = Row(reqs[r].key).last_validated_at
      ]_vars

\* C17: no step moves the stored last_validated_at backward.
C17_LastValidatedMonotone ==
    [][\A k \in LicenseKeys :
          (Exists(k) /\ licenses'[k] # NoRows)
             => licenses'[k][1].last_validated_at >= Row(k).last_validated_at
      ]_vars

\* C18: a Revoke call with an empty reason is rejected and writes nothing;
\* a Revoke call with a reason takes revokedAt = now, and its UPDATE on an
\* existing pending or active license sets status = revoked, revoked_at =
\* that time and revoke_reason = the reason, and no other column.
C18_RevokeSets ==
    [][\A r \in Reqs :
          (Steps(r) /\ reqs'[r].op = "revoke") =>
             LET q == reqs'[r]
                 k == q.key
             IN  /\ reqs[r].op = "none" => licenses' = licenses
                 /\ q.reason = "" => q.pc = "done" /\ q.result = "BadRequest"
                 /\ (reqs[r].op = "none" /\ q.reason # "")
                       => q.pc = "sent" /\ q.ts = now'
                 /\ ( /\ reqs[r].pc = "sent" /\ Exists(k)
                      /\ Row(k).status \in {"pending", "active"} )
                       => licenses' = [licenses EXCEPT ![k] =
                             <<[Row(k) EXCEPT !.status = "revoked",
                                              !.revoked_at = reqs[r].ts,
                                              !.revoke_reason = reqs[r].reason]>>]
      ]_vars

\* One Revoke call with a reason has reached the license, another without a
\* reason was rejected.
C18_Witness ==
    \E r1, r2 \in Reqs :
       /\ reqs[r1].op = "revoke" /\ reqs[r1].pc = "done"
       /\ reqs[r1].result = "Success"
       /\ Exists(reqs[r1].key)
       /\ Row(reqs[r1].key).status = "revoked"
       /\ Row(reqs[r1].key).revoke_reason = reqs[r1].reason
       /\ Row(reqs[r1].key).revoked_at # NullTime
       /\ reqs[r2].op = "revoke" /\ reqs[r2].result = "BadRequest"

\* Request q is a Delete of key k answered with success, and no Issue of k
\* has arrived after it.
DeletedBefore(q, k) ==
    /\ reqs[q].op = "delete" /\ reqs[q].key = k /\ reqs[q].result = "Success"
    /\ \A g \in Reqs : (g > q /\ reqs[g].op = "generate") => reqs[g].key # k

\* C19: an Activate or Validate call that arrives after a Delete of its key
\* was answered with success, no Issue of the key having arrived since,
\* finds no record and is answered NotFound.
C19_DeleteRemoves ==
    [][\A r \in Reqs :
          ( /\ Steps(r) /\ reqs'[r].op \in {"activate", "validate"}
            /\ \E q \in Reqs : q < r /\ DeletedBefore(q, reqs'[r].key) )
          => /\ reqs'[r].pc = "decide" => reqs'[r].lic = NoRows
             /\ AnsweredNow(r) => reqs'[r].result = "NotFound"
      ]_vars

\* C20: verifyLicenseSignature answers true exactly for an assertion with
\* the signature the service key made over that same assertion, checked with
\* the service public key; with any other assertion or signature, and with a
\* signature or key it cannot use, it answers false.
C20_VerifyRoundTrip ==
    verification.result # "none" =>
       LET v == verification
           genuine == /\ v.publicKey = publicKey
                      /\ v.signature = signLicense(v.licenseData, privateKey)
       IN  /\ genuine => v.result = "true"
           /\ ~genuine => v.result = "false"
           /\ (v.publicKey = BadKey \/ v.signature.by = NoSignature)
                 => v.result = "false"

\* A signed assertion has been verified with the service public key.
C20_Witness ==
    /\ verification.result = "true"
    /\ verification.publicKey = publicKey
    /\ verification.signature = signLicense(verification.licenseData, privateKey)

\* C21: decoding an offline file with the key derived from the device id it
\* was made for recovers exactly the signed data of the answer; decoding it
\* with the key derived from any other device id fails authentication.
C21_OfflineRoundTrip ==
    decoding # <<>> =>
       LET made == reqs[decoding.req]
       IN  IF decoding.dev = made.dev
           THEN decoding.result = <<made.resp[1].licenseData>>
           ELSE decoding.result = <<>>

\* The device the file was made for has decoded it.
C21_Witness ==
    /\ decoding # <<>>
    /\ decoding.dev = reqs[decoding.req].dev
    /\ decoding.result = <<reqs[decoding.req].resp[1].licenseData>>

\* The raw device ids and their leading parts.
RawDeviceData == {substring(d, n) : d \in Devices, n \in 1..8}

\* C25: no stored record holds a raw device id or a part of one: the
\* fingerprint columns of the license rows and of the validation log hold
\* null or a hash, and no activity-log entry of the offline route carries
\* characters of the device id.
C25_NoRawDeviceIds ==
    /\ \A k \in LicenseKeys : Exists(k) =>
          Row(k).device_id_hash \in {NullHash} \cup {hashDeviceId(d) : d \in Devices}
    /\ \A i \in DOMAIN validation_logs :
          validation_logs[i].device_id_hash \in {hashDeviceId(d) : d \in Devices}
    /\ \A i \in DOMAIN activity_logs :
          activity_logs[i].action = "generate_offline_license"
             => activity_logs[i].details.part \notin RawDeviceData

\* The fields of a response body that hold text.
TextFields == {"error", "reason", "body", "licenseKey", "status"}

\* C26: no response of any endpoint holds the private key: no text field
\* of a response body, or of the license it carries, is the private key, and
\* what /keys/public sends is the public key.
C26_PrivateKeyStaysInside ==
    \A r \in Reqs : reqs[r].resp # <<>> =>
       LET body == reqs[r].resp[1]
       IN  /\ \A f \in DOMAIN body \cap TextFields : body[f] # privateKey
           /\ "license" \in DOMAIN body =>
                 \A f \in DOMAIN body.license \cap TextFields :
                    body.license[f] # privateKey
           /\ reqs[r].op = "keys" => body.body = publicKey

\* The public key has been served and a signed license has been returned.
C26_Witness ==
    \E r1, r2 \in Reqs :
       /\ reqs[r1].op = "keys" /\ reqs[r1].resp = <<[body |-> publicKey]>>
       /\ reqs[r2].op = "activate" /\ reqs[r2].result = "Success"

\* C22: every answer of /activate with success carries a license and a
\* signature that verifies under the service public key over exactly that
\* license, and none of its calls failed; every other answer of /activate
\* carries neither license nor signature; a request whose signLicense threw
\* is answered with the failure of the catch block.
C22_SuccessIsSigned ==
    \A r \in Reqs : reqs[r].op = "activate" /\ reqs[r].pc = "done" =>
       LET body == reqs[r].resp[1]
       IN  /\ reqs[r].result = "Success" =>
                 /\ faults[r] = "none"
                 /\ DOMAIN body = {"license", "signature"}
                 /\ verifyLicenseSignature(body.license, body.signature, publicKey)
           /\ reqs[r].result # "Success" =>
                 DOMAIN body \cap {"license", "signature"} = {}
           /\ faults[r] = "signLicense" =>
                 reqs[r].result = "Failed" /\ body = ActivationFailed[1]

\* An activation was answered with success, and another met a throwing
\* signLicense.
C22_Witness ==
    \E r1, r2 \in Reqs :
       /\ reqs[r1].op = "activate" /\ reqs[r1].result = "Success"
       /\ reqs[r2].op = "activate" /\ faults[r2] = "signLicense"
       /\ reqs[r2].result = "Failed"

\* The calls of the store.
StoreCalls == {"getLicenseByKey", "activateLicense", "updateValidation", "logValidation"}

\* C23: a request of /activate or /validate is answered with the failure of
\* the catch block exactly when one of its store calls was rejected: a
\* rejected store call is answered "Failed", which is none of NotFound,
\* Revoked, Expired and DeviceMismatch, and a request none of whose store
\* calls was rejected is not answered "Failed".
C23_FailedIffStoreFailed ==
    \A r \in Reqs : reqs[r].op \in {"activate", "validate"} /\ reqs[r].pc = "done" =>
       (reqs[r].result = "Failed" <=> faults[r] \in StoreCalls)

\* C24: when the log insert that follows the committed UPDATE of a first
\* activation is rejected, the license row is left as the UPDATE wrote it,
\* and the caller is answered with success.
C24_LogFailureKeepsSuccess ==
    [][\A r \in Reqs :
          ( /\ reqs[r].op = "activate" /\ reqs[r].pc = "respond"
            /\ faults'[r] = "logValidation" )
          => /\ licenses' = licenses
             /\ reqs'[r].result = "Success"]_vars

\* C27: the validation log only grows: every step of the issue, activate,
\* validate, revoke and delete routes leaves every entry written earlier in
\* its place and unchanged, the commit of a delete included.
C27_LogAppendOnly ==
    [][/\ Len(validation_logs') >= Len(validation_logs)
       /\ SubSeq(validation_logs', 1, Len(validation_logs)) = validation_logs]_vars

\* A license was activated and then deleted, and the entry of its activation
\* is in the log.
C27_Witness ==
    \E k \in LicenseKeys, r \in Reqs, i \in DOMAIN validation_logs :
       /\ reqs[r].op = "delete" /\ reqs[r].key = k /\ reqs[r].pc = "done"
       /\ ~Exists(k)
       /\ validation_logs[i].license_key = k /\ validation_logs[i].success

\* Both key files are on disk.
Persisted == KeysOnDisk(keyFiles)

\* C28: over any sequence of boots a pair is made only while the two key
\* files are not both on disk; once they are, no later step changes either
\* file, a process that is up holds exactly the pair on disk, and one
\* public key at most has ever been served.
C28_KeyPairReused ==
    [][/\ keyFiles'.pairs > keyFiles.pairs => ~Persisted
       /\ Persisted =>
             /\ keyFiles'.private = keyFiles.private
             /\ keyFiles'.public = keyFiles.public
             /\ keyFiles'.pc = "up" =>
                   keyFiles'.held = <<[privateKey |-> keyFiles.private,
                                       publicKey |-> keyFiles.public]>>
       /\ Cardinality(keyFiles'.served) <= 1]_vars

\* A boot that ended before public.pem was written was followed by a boot
\* that made and persisted a pair, and by two more boots that served it.
C28_Witness ==
    /\ keyFiles.pairs >= 2 /\ keyFiles.boots >= keyFiles.pairs + 2
    /\ keyFiles.pc = "up" /\ Persisted
    /\ keyFiles.served = {keyFiles.public}

\* C29: with a license active, unexpired and bound to hash(D), and no
\* operator request on its key, every Activate and every Validate by D,
\* however they interleave, is answered with success, and when it is
\* answered the license is active and bound to hash(D).
C29_BoundDeviceCallsSucceed ==
    [][\A r \in Reqs :
          ( /\ AnsweredNow(r)
            /\ HasRead(r, "activate") \/ HasRead(r, "validate")
            /\ Read(r).status = "active"
            /\ Read(r).device_id_hash = hashDeviceId(reqs[r].dev)
            /\ Read(r).expires_at >= now'
            /\ Untouched(reqs[r].key) )
          => /\ reqs'[r].result = "Success"
             /\ licenses'[reqs[r].key][1].status = "active"
             /\ licenses'[reqs[r].key][1].device_id_hash = hashDeviceId(reqs[r].dev)]_vars

\* The values of the status column.
Statuses == {"pending", "active", "revoked"}

\* C30: every stored status is pending, active or revoked; and expiry is
\* decided by the handlers as expires_at < now: a request answered Expired
\* read an expiry date before the time of its check, and a request whose
\* check finds the expiry date equal to the time is not answered Expired and
\* goes on to its UPDATE when nothing else stops it.
C30_ExpiryIsDerived ==
    [][/\ \A k \in LicenseKeys : licenses'[k] # NoRows => licenses'[k][1].status \in Statuses
       /\ \A r \in Reqs :
             ( /\ Steps(r) /\ reqs[r].pc = "decide"
               /\ HasRead(r, "activate") \/ HasRead(r, "validate") )
             => /\ reqs'[r].result = "Expired" => Read(r).expires_at < now'
                /\ Read(r).expires_at = now' =>
                      /\ reqs'[r].result # "Expired"
                      /\ ( /\ reqs[r].op = "activate"
                           /\ Read(r).status = "pending" ) => reqs'[r].pc = "update"
                      /\ ( /\ reqs[r].op = "validate"
                           /\ Read(r).status # "revoked"
                           /\ Read(r).device_id_hash = hashDeviceId(reqs[r].dev) )
                           => reqs'[r].pc = "update"]_vars

\* A Validate and an Activate were checked at the very time their license
\* expires and went on to their UPDATE.
C30_Witness ==
    \E r1, r2 \in Reqs :
       /\ reqs[r1].op = "validate" /\ reqs[r1].pc = "update"
       /\ reqs[r1].lic[1].expires_at = reqs[r1].ts
       /\ reqs[r2].op = "activate" /\ reqs[r2].pc \in {"update", "respond"}
       /\ reqs[r2].lic[1].expires_at = reqs[r2].ts

\* C31: when every awaited store call is settled in the end, every request
\* of /activate and /validate is answered, whichever calls of it fail; and
\* a request that has been answered keeps the answer it got: no second
\* answer is sent.
C31_AnsweredExactlyOnce ==
    /\ \A r \in Reqs :
          (reqs[r].op \in {"activate", "validate"}) ~> (reqs[r].result # "none")
    /\ [][\A r \in Reqs : reqs[r].result # "none" =>
             /\ reqs'[r].result = reqs[r].result
             /\ reqs'[r].resp = reqs[r].resp]_vars

\* An activation went through its three awaits to success, and a validation
\* whose lookup was rejected was answered.
C31_Witness ==
    \E r1, r2 \in Reqs :
       /\ reqs[r1].op = "activate" /\ reqs[r1].result = "Success"
       /\ reqs[r2].op = "validate" /\ faults[r2] = "getLicenseByKey"
       /\ reqs[r2].result = "Failed"

\* The UPDATE of request r has committed and the row holds the time it wrote.
Wrote(r) ==
    /\ reqs[r].pc = "respond" /\ Exists(reqs[r].key)
    /\ Row(reqs[r].key).last_validated_at = reqs[r].ts

\* C32: a request of /activate or /validate that is answered with an error
\* has committed no write to the license: the row does not hold a time that
\* the request's own UPDATE wrote.
C32_ErrorWritesNothing ==
    [][\A r \in Reqs :
          ( /\ AnsweredNow(r) /\ reqs[r].op \in {"activate", "validate"}
            /\ reqs'[r].result # "Success" )
          => ~Wrote(r)]_vars

\* C33: at the moment /activate answers a request of device D with success,
\* the store holds a license under the key that is active and bound to
\* hash(D), whatever other requests on the key are under way.
C33_SuccessMeansBound ==
    [][\A r \in Reqs :
          ( /\ AnsweredNow(r) /\ reqs[r].op = "activate"
            /\ reqs'[r].result = "Success" )
          => /\ licenses'[reqs[r].key] # NoRows
             /\ licenses'[reqs[r].key][1].status = "active"
             /\ licenses'[reqs[r].key][1].device_id_hash = hashDeviceId(reqs[r].dev)]_vars

\* C34: every active license has a fingerprint, an activation time and a
\* validation time; every pending license has no fingerprint and no
\* activation time.
C34_ActiveIsBound ==
    \A k \in LicenseKeys : Exists(k) =>
       /\ Row(k).status = "active" =>
             /\ Row(k).device_id_hash # NullHash
             /\ Row(k).activated_at # NullTime
             /\ Row(k).last_validated_at # NullTime
       /\ Row(k).status = "pending" =>
             /\ Row(k).device_id_hash = NullHash
             /\ Row(k).activated_at = NullTime

\* A license was revoked while pending and then made active by an
\* activation that had read it pending.
C34_Witness ==
    \E k \in LicenseKeys, r1, r2 \in Reqs :
       /\ Exists(k) /\ Row(k).status = "active"
       /\ Row(k).revoked_at # NullTime /\ Row(k).revoked_at <= Row(k).activated_at
       /\ reqs[r1].op = "revoke" /\ reqs[r1].pc = "done"
       /\ reqs[r2].op = "activate" /\ reqs[r2].result = "Success"

\* C35: a license carries a revocation time and a revocation reason
\* exactly when its status is revoked.
C35_RevocationFieldsFollowStatus ==
    \A k \in LicenseKeys : Exists(k) =>
       /\ Row(k).revoked_at # NullTime <=> Row(k).status = "revoked"
       /\ Row(k).revoke_reason # NullText <=> Row(k).status = "revoked"

\* C36: when /activate or /generate-offline signs and returns an assertion
\* for a key, the license stored under the key at that time is neither
\* revoked nor past its expiry date.
C36_NoAssertionForDeadLicense ==
    [][\A r \in Reqs :
          ( /\ AnsweredNow(r) /\ reqs'[r].op \in {"activate", "offline"}
            /\ reqs'[r].result = "Success"
            /\ licenses[reqs'[r].key] # NoRows )
          => /\ licenses[reqs'[r].key][1].status # "revoked"
             /\ licenses[reqs'[r].key][1].expires_at >= now']_vars

\* Request r was answered with a signed assertion.
Issued(r) == reqs[r].op \in {"activate", "offline"} /\ reqs[r].result = "Success"

\* The fingerprint in the assertion request r was answered with.
IssuedDevice(r) ==
    IF reqs[r].op = "offline"
    THEN reqs[r].resp[1].licenseData.license.deviceId
    ELSE reqs[r].resp[1].license.deviceId

\* C37: all the assertions signed for one license key, by /activate and by
\* /generate-offline, carry the same fingerprint, and while the license is
\* bound that fingerprint is the stored one.
C37_OneDevicePerLicense ==
    \A r1, r2 \in Reqs :
       (Issued(r1) /\ Issued(r2) /\ reqs[r1].key = reqs[r2].key)
       => /\ IssuedDevice(r1) = IssuedDevice(r2)
          /\ ( /\ Exists(reqs[r1].key)
               /\ Row(reqs[r1].key).device_id_hash # NullHash )
             => IssuedDevice(r1) = Row(reqs[r1].key).device_id_hash

\* C38: a request of /generate-offline writes nothing to the licenses, and
\* for a key with no license it is answered NotFound.
C38_OfflineReadsOnly ==
    [][\A r \in Reqs :
          (AnsweredNow(r) /\ reqs'[r].op = "offline")
          => /\ licenses' = licenses
             /\ licenses[reqs'[r].key] = NoRows => reqs'[r].result = "NotFound"]_vars

\* C39: a revoke with a reason, or a delete, on a key with no license is
\* answered NotFound, and no step of it creates a license.
C39_OperatorNotFound ==
    [][\A r \in Reqs :
          /\ ( /\ reqs[r].pc = "idle" /\ reqs'[r].op \in {"revoke", "delete"}
               /\ reqs'[r].op = "revoke" => reqs'[r].reason # ""
               /\ licenses[reqs'[r].key] = NoRows )
             => reqs'[r].result = "NotFound" /\ licenses' = licenses
          /\ ( /\ reqs[r].op \in {"revoke", "delete"} /\ Steps(r)
               /\ licenses[reqs[r].key] = NoRows )
             => licenses'[reqs[r].key] = NoRows]_vars

\* C40: for every device, at most one active license is bound to its
\* fingerprint: the lookup by fingerprint among the active licenses finds
\* one row at most.
C40_OneActiveLicensePerDevice ==
    \A d \in Devices :
       Cardinality(getLicenseByDeviceId(licenses, hashDeviceId(d))) <= 1

=============================================================================
